---- MODULE Spec2Model ----
(***************************************************************************)
(* A model of pleroma.py: the rate-limit aware request pipeline            *)
(* (_RateLimitContextManager, Pleroma.request), the parallel media upload  *)
(* of Pleroma.post, the streaming decoder Pleroma.stream with the          *)
(* generators around it, the cached id of Pleroma._get_logged_in_id and    *)
(* the pagination of Pleroma.account_statuses_iter.                        *)
(*                                                                         *)
(* Several specifications share the module, one per part of the program:  *)
(*   SpecRequest      one call of Pleroma.request                          *)
(*   SpecRequestFair  the same under weak fairness of its progress steps   *)
(*   SpecPost         one call of Pleroma.post with its upload task group  *)
(*   SpecStream       one iteration over Pleroma.stream                    *)
(*   SpecLogin        concurrent calls of Pleroma._get_logged_in_id        *)
(*   SpecIter         one iteration over Pleroma.account_statuses_iter     *)
(* Each leaves the variables of the other parts untouched.                 *)
(***************************************************************************)
EXTENDS Naturals, Integers, Sequences, FiniteSets

VARIABLES
    \* ---- Pleroma.request / _RateLimitContextManager ----
    rq_pc,        \* position of the call: "call", "await", "sleeping", "body", "done"
    rq_host,      \* yarl.URL(self.api_base_url).host
    rq_args,      \* self.args / self.kwargs of the context manager
    rq_sent,      \* transport requests issued so far, in order, with the clock at issue
    rq_hist,      \* rate-limit headers of every response acquired so far, in order
    rq_resp,      \* the response currently bound to `resp`
    rq_rel,       \* rq_rel[i]: how many times the i-th acquired response was released
    rq_wake,      \* the instant sleep_until waits for
    rq_sleeps,    \* how many times the call entered sleep_until
    rq_clock,     \* datetime.now(timezone.utc)
    rq_out,       \* what the call gave its caller
    \* ---- Pleroma.post ----
    pt_pc,        \* position of post: "call", "uploading", "posting", "done"
    pt_files,     \* len(files)
    pt_data,      \* the dict `data` built for the status request
    up_pc,        \* up_pc[i]: position of upload task i
    up_held,      \* up_held[i]: task i holds an acquired, unreleased response
    up_tries,     \* up_tries[i]: transport requests task i issued
    files_uploaded, \* the list filled by the upload tasks
    tg_errors,    \* exceptions the task group collected, in the order raised
    up_done,      \* the uploads that returned, in completion order, with the id each got
    pt_posted,    \* the data of every POST /api/v1/statuses issued
    pt_out,       \* what post gave its caller
    \* ---- Pleroma.stream ----
    st_pc,        \* position of the generator stream: "call", "open" (awaiting a
                  \* message), "yielded" (suspended at a yield, the consumer runs),
                  \* "abandoned" (suspended at a yield, never resumed), "done"
    st_via,       \* the method the consumer called
    st_name,      \* stream_name
    st_target,    \* target_event_type
    st_ws,        \* connections opened so far: whether each is open, and the way
                  \* its `async with` block was left
    st_in,        \* frames received so far, in arrival order
    st_out,       \* values stream yielded so far, in order
    st_got,       \* values the consumer was given so far, in order
    st_err,       \* the exception that ended the iteration, or "none"
    \* ---- Pleroma._get_logged_in_id ----
    logged_in_id, \* self._logged_in_id
    lg_pc,        \* lg_pc[c]: position of call c: "new", "await", "done"
    lg_seen,      \* lg_seen[c]: self._logged_in_id as call c found it when it started
    lg_reqs,      \* lg_reqs[c]: verify_credentials requests call c issued
    lg_me,        \* lg_me[c]: what `await self.me()` gave call c
    lg_hist,      \* every assignment to self._logged_in_id, in order: call and value
    lg_out,       \* lg_out[c]: what call c gave its caller
    \* ---- Pleroma.account_statuses_iter ----
    it_pc,        \* position of the generator: "call", "await", "yielded", "done"
    it_repeats,   \* exclude_repeats
    it_max_id,    \* the local max_id
    it_reqs,      \* the account_statuses requests issued so far, in order
    it_pages,     \* the pages received so far, in order
    it_idx,       \* how many statuses of the last page were yielded
    it_out,       \* the statuses yielded so far, in order
    it_err        \* the exception that ended the generator, or "none"

rq_vars == <<rq_pc, rq_host, rq_args, rq_sent, rq_hist, rq_resp, rq_rel, rq_wake,
             rq_sleeps, rq_clock, rq_out>>
pt_vars == <<pt_pc, pt_files, pt_data, up_pc, up_held, up_tries, files_uploaded, tg_errors,
             up_done, pt_posted, pt_out>>
st_vars == <<st_pc, st_via, st_name, st_target, st_ws, st_in, st_out, st_got, st_err>>
lg_vars == <<logged_in_id, lg_pc, lg_seen, lg_reqs, lg_me, lg_hist, lg_out>>
it_vars == <<it_pc, it_repeats, it_max_id, it_reqs, it_pages, it_idx, it_out, it_err>>
vars == <<rq_vars, pt_vars, st_vars, lg_vars, it_vars>>

(***************************************************************************)
(* Bounds of the model.                                                    *)
(***************************************************************************)
MaxAttempts == 3     \* transport requests one call may issue
MaxTime == 1         \* the clock runs 0..MaxTime
MaxFiles == 2        \* files of one post
MaxUploadTries == 2  \* transport requests one upload may issue
MaxFrames == 3       \* frames received on one stream
MaxCalls == 3        \* calls of _get_logged_in_id on one client
MaxPages == 2        \* non-empty pages the server returns to one iteration
MaxPageLen == 2      \* statuses on one page

(***************************************************************************)
(* Values.                                                                 *)
(***************************************************************************)
NoHeader == "<absent>"          \* resp.headers.get(...) gives None
Null == "<null>"                \* JSON null / Python None

BAD_REQUEST == 400
INTERNAL_SERVER_ERROR == 500
Statuses == {200, 403, BAD_REQUEST, INTERNAL_SERVER_ERROR}

\* X-RateLimit-Remaining as the server may send it: the header is a string.
RemainingValues == {NoHeader, "0", "1", "2", "00"}

\* X-RateLimit-Reset as the server may send it: <<form, instant>>.
\*   "date"    a date with a time zone,  "naive" a date without one,
\*   "garbage" no date at all,           "absent" no such header
ResetValues == {<<"absent", 0>>, <<"garbage", 0>>, <<"naive", 0>>}
               \cup {<<"date", t>> : t \in 0..MaxTime}

\* JSON bodies, as the objects resp.json() parses them to.
Bodies == { [error |-> "Record not found"], [id |-> "7"] }

Responses == [remaining : RemainingValues, reset : ResetValues,
              status : Statuses, body : Bodies]

NoResponse == [remaining |-> NoHeader, reset |-> <<"absent", 0>>,
               status |-> 0, body |-> [none |-> Null]]

api_base_url == "https://example.test"
Hosts == {"example.test", "blocked.test"}

\* What callers pass to Pleroma.request: method, path, kwargs.
RequestArgs == { [method |-> "GET", path |-> "/api/v1/accounts/verify_credentials",
                  kwargs |-> [params |-> Null, data |-> Null]],
                 [method |-> "POST", path |-> "/api/v1/statuses",
                  kwargs |-> [params |-> Null, data |-> "status=hi"]] }

NoOutcome == [kind |-> "none"]
NoData == [status |-> Null, visibility |-> Null]
Outcome(k, v) == [kind |-> k, val |-> v]

(***************************************************************************)
(* Pure helpers of the request pipeline.                                   *)
(***************************************************************************)
\* The deny-list gate of Pleroma.request: a salted sha256 of the host looked
\* up in a fixed set of digests; here the opaque predicate it decides.
Denied_Never(host) == FALSE
Denied(host) == host = "blocked.test"

\* resp.headers.get('X-RateLimit-Remaining') not in {'0', '1'}, negated
RateLimited_OnlyZero(resp) == resp.remaining = "0"
RateLimited_Numeric(resp) == resp.remaining \in {"0", "1", "00"}
RateLimited_Always(resp) == TRUE
RateLimited(resp) == resp.remaining \in {"0", "1"}

\* parsedate(resp.headers['X-RateLimit-Reset']) followed by the subtraction in
\* sleep_until: the exception raised, or "ok"
ResetError(reset) ==
    CASE reset[1] = "absent"  -> "KeyError"
      [] reset[1] = "garbage" -> "ParserError"
      [] reset[1] = "naive"   -> "TypeError"
      [] OTHER                -> "ok"

\* the instant sleep_until(dt) waits for
SleepUntil(reset, now) == reset[2]

\* self.http.request(*self.args, **self.kwargs): the transport request made
\* from the stored arguments (Pleroma.request passed api_base_url + path)
TransportRequest(args) ==
    [method |-> args.method, url |-> <<api_base_url, args.path>>, kwargs |-> args.kwargs]

\* the body of `async with ... as resp` in Pleroma.request
StatusOutcome_No500(resp) ==
    IF resp.status = BAD_REQUEST
    THEN IF "error" \in DOMAIN resp.body
         THEN Outcome("BadRequest", resp.body.error)
         ELSE Outcome("KeyError", "error")
    ELSE Outcome("ok", resp.body)
StatusOutcome(resp) ==
    IF resp.status = BAD_REQUEST
    THEN IF "error" \in DOMAIN resp.body
         THEN Outcome("BadRequest", resp.body.error)
         ELSE Outcome("KeyError", "error")
    ELSE IF resp.status = INTERNAL_SERVER_ERROR
         THEN Outcome("BadResponse", resp.body)
         ELSE Outcome("ok", resp.body)

\* the response most recently acquired is still acquired
Held(i) == i \in 1..Len(rq_rel) /\ rq_rel[i] = 0
Release(rel, i) == [rel EXCEPT ![i] = @ + 1]

(***************************************************************************)
(* Pleroma.request, one call.                                              *)
(***************************************************************************)
RequestInit ==
    /\ rq_pc = "call"
    /\ rq_host \in Hosts
    /\ rq_args \in RequestArgs
    /\ rq_sent = <<>>
    /\ rq_hist = <<>>
    /\ rq_resp = NoResponse
    /\ rq_rel = <<>>
    /\ rq_wake = 0
    /\ rq_sleeps = 0
    /\ rq_clock = 0
    /\ rq_out = NoOutcome

Issue(now) == Append(rq_sent, [req |-> TransportRequest(rq_args), at |-> now])

\* Pleroma.request up to `async with`: the deny-list gate, then
\* _RateLimitContextManager.__aenter__ issues the transport request.
Request ==
    /\ rq_pc = "call"
    /\ IF Denied(rq_host)
       THEN /\ rq_pc' = "done"
            /\ rq_out' = Outcome("RuntimeError", "stop being a chud")
            /\ UNCHANGED rq_sent
       ELSE /\ rq_pc' = "await"
            /\ rq_sent' = Issue(rq_clock)
            /\ UNCHANGED rq_out
    /\ UNCHANGED <<rq_host, rq_args, rq_hist, rq_resp, rq_rel, rq_wake, rq_sleeps, rq_clock>>
    /\ UNCHANGED <<pt_vars, st_vars, lg_vars, it_vars>>

\* _do_enter: the transport answers; the response is acquired and its
\* headers decide between returning it, sleeping and failing.
DoEnterFrom(responses) ==
    /\ rq_pc = "await"
    /\ \E resp \in responses :
        /\ RateLimited(resp) => Len(rq_sent) < MaxAttempts
        /\ rq_resp' = resp
        /\ rq_hist' = Append(rq_hist, [remaining |-> resp.remaining, reset |-> resp.reset])
        /\ rq_rel' = Append(rq_rel, 0)
        /\ IF ~RateLimited(resp)
           THEN /\ rq_pc' = "body"
                /\ UNCHANGED <<rq_wake, rq_sleeps, rq_out>>
           ELSE IF ResetError(resp.reset) # "ok"
           THEN /\ rq_pc' = "done"
                /\ rq_out' = Outcome(ResetError(resp.reset), "X-RateLimit-Reset")
                /\ UNCHANGED <<rq_wake, rq_sleeps>>
           ELSE /\ rq_pc' = "sleeping"
                /\ rq_wake' = SleepUntil(resp.reset, rq_clock)
                /\ rq_sleeps' = rq_sleeps + 1
                /\ UNCHANGED rq_out
    /\ UNCHANGED <<rq_host, rq_args, rq_sent, rq_clock>>
    /\ UNCHANGED <<pt_vars, st_vars, lg_vars, it_vars>>

\* (variant) a failed transport call is answered by issuing the request again
TransportFails_Retried ==
    /\ rq_pc = "await"
    /\ Len(rq_sent) < MaxAttempts
    /\ rq_sent' = Append(rq_sent, [req |-> TransportRequest(rq_args), at |-> rq_clock])
    /\ UNCHANGED <<rq_pc, rq_host, rq_args, rq_hist, rq_resp, rq_rel, rq_wake, rq_sleeps,
                   rq_clock, rq_out>>
    /\ UNCHANGED <<pt_vars, st_vars, lg_vars, it_vars>>

DoEnter == DoEnterFrom(Responses)

\* the same with the server answering 200 and one body only: what the
\* headers decide does not depend on the status or the body
PlainResponses == {r \in Responses : r.status = 200 /\ r.body = [id |-> "7"]}
DoEnterPlain == DoEnterFrom(PlainResponses)

\* the transport call itself fails: no response is acquired
TransportFails ==
    /\ rq_pc = "await"
    /\ rq_pc' = "done"
    /\ rq_out' = Outcome("TransportError", "connection failed")
    /\ UNCHANGED <<rq_host, rq_args, rq_sent, rq_hist, rq_resp, rq_rel, rq_wake, rq_sleeps, rq_clock>>
    /\ UNCHANGED <<pt_vars, st_vars, lg_vars, it_vars>>

\* _do_enter after the sleep: the response is released, then __aenter__
\* runs again and issues the request anew.
Retry ==
    /\ rq_pc = "sleeping"
    /\ rq_clock >= rq_wake
    /\ rq_rel' = Release(rq_rel, Len(rq_rel))
    /\ rq_sent' = Issue(rq_clock)
    /\ rq_pc' = "await"
    /\ UNCHANGED <<rq_host, rq_args, rq_hist, rq_resp, rq_wake, rq_sleeps, rq_clock, rq_out>>
    /\ UNCHANGED <<pt_vars, st_vars, lg_vars, it_vars>>

\* the body of `async with` in Pleroma.request, then __aexit__
RequestBody ==
    /\ rq_pc = "body"
    /\ rq_out' = StatusOutcome(rq_resp)
    /\ rq_rel' = Release(rq_rel, Len(rq_rel))
    /\ rq_pc' = "done"
    /\ UNCHANGED <<rq_host, rq_args, rq_sent, rq_hist, rq_resp, rq_wake, rq_sleeps, rq_clock>>
    /\ UNCHANGED <<pt_vars, st_vars, lg_vars, it_vars>>

\* the caller's task is cancelled at an await: while the transport is asked,
\* during sleep_until, or inside the `async with` body (where __aexit__ runs)
RequestCancelled ==
    /\ rq_pc \in {"await", "sleeping", "body"}
    /\ rq_rel' = IF rq_pc = "body" THEN Release(rq_rel, Len(rq_rel)) ELSE rq_rel
    /\ rq_out' = Outcome("Cancelled", rq_pc)
    /\ rq_pc' = "done"
    /\ UNCHANGED <<rq_host, rq_args, rq_sent, rq_hist, rq_resp, rq_wake, rq_sleeps, rq_clock>>
    /\ UNCHANGED <<pt_vars, st_vars, lg_vars, it_vars>>

\* time passes
Tick ==
    /\ rq_pc \in {"await", "sleeping", "body"}
    /\ rq_clock < MaxTime
    /\ rq_clock' = rq_clock + 1
    /\ UNCHANGED <<rq_pc, rq_host, rq_args, rq_sent, rq_hist, rq_resp, rq_rel, rq_wake, rq_sleeps, rq_out>>
    /\ UNCHANGED <<pt_vars, st_vars, lg_vars, it_vars>>

(***************************************************************************)
(* Idle values of the parts a specification does not run.                  *)
(***************************************************************************)
PostIdle ==
    /\ pt_pc = "idle"
    /\ pt_files = 0
    /\ pt_data = NoData
    /\ up_pc = <<>>
    /\ up_held = <<>>
    /\ up_tries = <<>>
    /\ files_uploaded = <<>>
    /\ tg_errors = <<>>
    /\ up_done = <<>>
    /\ pt_posted = <<>>
    /\ pt_out = NoOutcome

StreamIdle ==
    /\ st_pc = "idle"
    /\ st_via = Null
    /\ st_name = Null
    /\ st_target = Null
    /\ st_ws = <<>>
    /\ st_in = <<>>
    /\ st_out = <<>>
    /\ st_got = <<>>
    /\ st_err = "none"

RequestIdle ==
    /\ rq_pc = "idle"
    /\ rq_host = "example.test"
    /\ rq_args = [method |-> "GET", path |-> "/", kwargs |-> [params |-> Null, data |-> Null]]
    /\ rq_sent = <<>>
    /\ rq_hist = <<>>
    /\ rq_resp = NoResponse
    /\ rq_rel = <<>>
    /\ rq_wake = 0
    /\ rq_sleeps = 0
    /\ rq_clock = 0
    /\ rq_out = NoOutcome

(***************************************************************************)
(* Pleroma.post, one call with its upload task group.                      *)
(***************************************************************************)
MediaIds == {"m1", "m2"}
\* bodies the media endpoint may answer with: an id, a null id, no id
UploadBodies == {[id |-> m] : m \in MediaIds \cup {Null}}
                \cup {[error |-> "Record not found"]}
UploadResponses == [remaining : RemainingValues, reset : ResetValues,
                    status : Statuses, body : UploadBodies]
Visibilities == {Null, "direct", "everyone"}
ValidVisibility(v) == v \in {Null, "private", "public", "unlisted", "direct"}

Tasks == 1..pt_files
SetAt(seq, i, v) == [seq EXCEPT ![i] = v]
Finished(i) == up_pc[i] \in {"ok", "failed", "cancelled"}
\* the task group's cancel scope is cancelled once a child has raised
ScopeCancelled == tg_errors # <<>>

\* assert None not in files_uploaded
AssertNoNone_Skipped(uploaded) == TRUE
AssertNoNone(uploaded) == \A i \in 1..Len(uploaded) : uploaded[i] # Null

\* files_uploaded[i] = ...: the closure `upload` stores at the index it was
\* started with, whatever has been stored before
StoreId_Append(uploaded, i, id, order) == SetAt(uploaded, Len(order) + 1, id)
StoreId(uploaded, i, id, order) == SetAt(uploaded, i, id)

\* the task group lets its block end when every child has ended
AllJoined == \A i \in Tasks : Finished(i)

\* data of the status request: media_ids[] is set only when files were given
Data(visibility) == [status |-> "hi", visibility |-> visibility]
WithMedia(data, media) ==
    [status |-> data.status, visibility |-> data.visibility, media_ids |-> media]

PostInit ==
    /\ pt_pc = "call"
    /\ pt_files \in 0..MaxFiles
    /\ pt_data = NoData
    /\ up_pc = [i \in 1..pt_files |-> "new"]
    /\ up_held = [i \in 1..pt_files |-> FALSE]
    /\ up_tries = [i \in 1..pt_files |-> 0]
    /\ files_uploaded = <<>>
    /\ tg_errors = <<>>
    /\ up_done = <<>>
    /\ pt_posted = <<>>
    /\ pt_out = NoOutcome

\* post up to the task group: the visibility check, data, and for a
\* non-empty files list the upload tasks started with start_soon; without
\* files the status request is issued at once.
Post ==
    /\ pt_pc = "call"
    /\ \E visibility \in Visibilities :
        IF ~ValidVisibility(visibility)
        THEN /\ pt_pc' = "done"
             /\ pt_out' = Outcome("ValueError", "invalid visibility")
             /\ UNCHANGED <<pt_data, files_uploaded, pt_posted>>
        ELSE IF pt_files > 0
        THEN /\ pt_pc' = "uploading"
             /\ pt_data' = Data(visibility)
             /\ files_uploaded' = [i \in 1..pt_files |-> Null]
             /\ UNCHANGED <<pt_posted, pt_out>>
        ELSE /\ pt_pc' = "posting"
             /\ pt_data' = Data(visibility)
             /\ pt_posted' = Append(pt_posted, Data(visibility))
             /\ UNCHANGED <<files_uploaded, pt_out>>
    /\ UNCHANGED <<pt_files, up_pc, up_held, up_tries, tg_errors, up_done>>
    /\ UNCHANGED <<rq_vars, st_vars, lg_vars, it_vars>>

\* a child raised: the exception is collected and the scope cancelled
Raise(i, kind) == Append(tg_errors, [task |-> i, kind |-> kind])

\* upload task i runs to its first await: Pleroma.upload builds the form
\* (a focus that is no pair raises ValueError) and Pleroma.request enters
\* the rate-limit context, issuing the transport request.
UploadStart(i) ==
    /\ pt_pc = "uploading"
    /\ up_pc[i] = "new"
    /\ ~ScopeCancelled
    /\ \E focus_ok \in BOOLEAN :
        IF focus_ok
        THEN /\ up_pc' = SetAt(up_pc, i, "await")
             /\ up_tries' = SetAt(up_tries, i, 1)
             /\ UNCHANGED tg_errors
        ELSE /\ up_pc' = SetAt(up_pc, i, "failed")
             /\ tg_errors' = Raise(i, "ValueError")
             /\ UNCHANGED up_tries
    /\ UNCHANGED <<pt_pc, pt_files, pt_data, up_held, files_uploaded, up_done, pt_posted, pt_out>>
    /\ UNCHANGED <<rq_vars, st_vars, lg_vars, it_vars>>

\* the transport answers upload i: _do_enter, then for a response that is
\* not limited the body of Pleroma.request, __aexit__ and
\* files_uploaded[i] = (...)['id']
UploadDoEnter(i) ==
    /\ pt_pc = "uploading"
    /\ up_pc[i] = "await"
    /\ ~ScopeCancelled
    /\ \E resp \in UploadResponses :
        /\ RateLimited(resp) => up_tries[i] < MaxUploadTries
        /\ IF RateLimited(resp)
           THEN /\ up_held' = SetAt(up_held, i, TRUE)
                /\ UNCHANGED <<files_uploaded, up_done>>
                /\ IF ResetError(resp.reset) # "ok"
                   THEN /\ up_pc' = SetAt(up_pc, i, "failed")
                        /\ tg_errors' = Raise(i, ResetError(resp.reset))
                   ELSE /\ up_pc' = SetAt(up_pc, i, "sleeping")
                        /\ UNCHANGED tg_errors
           ELSE /\ UNCHANGED up_held
                /\ IF StatusOutcome(resp).kind # "ok"
                   THEN /\ up_pc' = SetAt(up_pc, i, "failed")
                        /\ tg_errors' = Raise(i, StatusOutcome(resp).kind)
                        /\ UNCHANGED <<files_uploaded, up_done>>
                   ELSE IF "id" \notin DOMAIN resp.body
                   THEN /\ up_pc' = SetAt(up_pc, i, "failed")
                        /\ tg_errors' = Raise(i, "KeyError")
                        /\ UNCHANGED <<files_uploaded, up_done>>
                   ELSE /\ up_pc' = SetAt(up_pc, i, "ok")
                        /\ files_uploaded' = StoreId(files_uploaded, i, resp.body.id, up_done)
                        /\ up_done' = Append(up_done, [task |-> i, id |-> resp.body.id])
                        /\ UNCHANGED tg_errors
    /\ UNCHANGED <<pt_pc, pt_files, pt_data, up_tries, pt_posted, pt_out>>
    /\ UNCHANGED <<rq_vars, st_vars, lg_vars, it_vars>>

\* the transport call of upload i fails
UploadTransportFails(i) ==
    /\ pt_pc = "uploading"
    /\ up_pc[i] = "await"
    /\ ~ScopeCancelled
    /\ up_pc' = SetAt(up_pc, i, "failed")
    /\ tg_errors' = Raise(i, "TransportError")
    /\ UNCHANGED <<pt_pc, pt_files, pt_data, up_held, up_tries, files_uploaded, up_done,
                   pt_posted, pt_out>>
    /\ UNCHANGED <<rq_vars, st_vars, lg_vars, it_vars>>

\* upload i wakes from sleep_until, releases the limited response and
\* issues the request again
UploadRetry(i) ==
    /\ pt_pc = "uploading"
    /\ up_pc[i] = "sleeping"
    /\ ~ScopeCancelled
    /\ up_held' = SetAt(up_held, i, FALSE)
    /\ up_tries' = SetAt(up_tries, i, up_tries[i] + 1)
    /\ up_pc' = SetAt(up_pc, i, "await")
    /\ UNCHANGED <<pt_pc, pt_files, pt_data, files_uploaded, tg_errors, up_done, pt_posted,
                   pt_out>>
    /\ UNCHANGED <<rq_vars, st_vars, lg_vars, it_vars>>

\* the cancelled scope reaches upload i at the await it is suspended in:
\* CancelledError leaves _do_enter, and __aexit__ is not run because
\* __aenter__ never returned
UploadCancelled(i) ==
    /\ pt_pc = "uploading"
    /\ up_pc[i] \in {"new", "await", "sleeping"}
    /\ ScopeCancelled
    /\ up_pc' = SetAt(up_pc, i, "cancelled")
    /\ UNCHANGED <<pt_pc, pt_files, pt_data, up_held, up_tries, files_uploaded, tg_errors,
                   up_done, pt_posted, pt_out>>
    /\ UNCHANGED <<rq_vars, st_vars, lg_vars, it_vars>>

\* the task group block ends: a collected exception is raised to the caller
\* of post; otherwise the assertion, data['media_ids[]'] and the status
\* request
TaskGroupExit ==
    /\ pt_pc = "uploading"
    /\ AllJoined
    /\ IF tg_errors # <<>>
       THEN /\ pt_pc' = "done"
            /\ pt_out' = Outcome(tg_errors[1].kind, tg_errors[1].task)
            /\ UNCHANGED <<pt_data, pt_posted>>
       ELSE IF ~AssertNoNone(files_uploaded)
       THEN /\ pt_pc' = "done"
            /\ pt_out' = Outcome("AssertionError", "None in files_uploaded")
            /\ UNCHANGED <<pt_data, pt_posted>>
       ELSE /\ pt_pc' = "posting"
            /\ pt_data' = WithMedia(pt_data, files_uploaded)
            /\ pt_posted' = Append(pt_posted, WithMedia(pt_data, files_uploaded))
            /\ UNCHANGED pt_out
    /\ UNCHANGED <<pt_files, up_pc, up_held, up_tries, files_uploaded, tg_errors, up_done>>
    /\ UNCHANGED <<rq_vars, st_vars, lg_vars, it_vars>>

\* the status request ends as any Pleroma.request does
PostResult ==
    /\ pt_pc = "posting"
    /\ \E kind \in {"ok", "BadRequest", "BadResponse", "TransportError"} :
          pt_out' = Outcome(kind, "/api/v1/statuses")
    /\ pt_pc' = "done"
    /\ UNCHANGED <<pt_files, pt_data, up_pc, up_held, up_tries, files_uploaded, tg_errors,
                   up_done, pt_posted>>
    /\ UNCHANGED <<rq_vars, st_vars, lg_vars, it_vars>>

(***************************************************************************)
(* Pleroma.stream, one iteration over the generator.                       *)
(***************************************************************************)
\* JSON text is <<"json", v>> when it encodes the value v and <<"raw", t>>
\* when it is no JSON document.
Enc(v) == <<"json", v>>
Garbage == <<"raw", "{oops">>
IsJson(text) == text[1] = "json"
\* json.loads / msg.json() on a text that IsJson
Loads(text) == text[2]

Mention == [type |-> "mention", id |-> "n1"]
Favourite == [type |-> "favourite", id |-> "n2"]

\* the outer objects a server may send
Envelopes ==
    { [event |-> "notification", payload |-> Enc(Mention)],
      [event |-> "notification", payload |-> Enc(Favourite)],
      [event |-> "update", payload |-> Enc(Favourite)],
      [event |-> "notification", payload |-> Garbage],
      [event |-> "update", payload |-> Garbage],
      [event |-> "filters_changed"],
      [event |-> "filters_changed", payload |-> Garbage],
      [event |-> "notification"],
      [payload |-> Enc(Mention)] }

\* the messages `async for msg in ws` may produce
Frames == {[type |-> "TEXT", data |-> Enc(e)] : e \in Envelopes}
          \cup {[type |-> "TEXT", data |-> Garbage],
                [type |-> "BINARY", data |-> Garbage]}

\* the ways to stream: stream_notifications, stream_mentions (over
\* stream_notifications), stream_local_timeline, stream_federated_timeline,
\* and stream called directly with another target
StreamCalls ==
    { [via |-> "stream_notifications", name |-> "user:notification", target |-> "notification"],
      [via |-> "stream_mentions", name |-> "user:notification", target |-> "notification"],
      [via |-> "stream_local_timeline", name |-> "public:local", target |-> Null],
      [via |-> "stream_federated_timeline", name |-> "public", target |-> Null],
      [via |-> "stream", name |-> "user", target |-> "update"] }

Yield(v) == [kind |-> "yield", val |-> v]
RaiseIn(e) == [kind |-> "raise", val |-> e]
Drop == [kind |-> "drop", val |-> Null]

\* the body of `async for msg in ws` for one message
Decode_TargetFirst(msg, target) ==
    IF msg.type # "TEXT" THEN Drop
    ELSE IF ~IsJson(msg.data) THEN RaiseIn("JSONDecodeError")
    ELSE LET event == Loads(msg.data) IN
         IF "event" \notin DOMAIN event THEN RaiseIn("KeyError")
         ELSE IF target = Null \/ event.event = target
         THEN IF event.event = "filters_changed" THEN Yield(event)
              ELSE IF "payload" \notin DOMAIN event THEN RaiseIn("KeyError")
              ELSE IF ~IsJson(event.payload) THEN RaiseIn("JSONDecodeError")
              ELSE Yield(Loads(event.payload))
         ELSE Drop
Decode_AnyEvent(msg, target) ==
    IF msg.type # "TEXT" THEN Drop
    ELSE IF ~IsJson(msg.data) THEN RaiseIn("JSONDecodeError")
    ELSE LET event == Loads(msg.data) IN
         IF "event" \notin DOMAIN event THEN RaiseIn("KeyError")
         ELSE IF event.event = "filters_changed" THEN Yield(event)
         ELSE IF "payload" \notin DOMAIN event THEN RaiseIn("KeyError")
         ELSE IF ~IsJson(event.payload) THEN RaiseIn("JSONDecodeError")
         ELSE Yield(Loads(event.payload))
Decode(msg, target) ==
    IF msg.type # "TEXT" THEN Drop
    ELSE IF ~IsJson(msg.data) THEN RaiseIn("JSONDecodeError")
    ELSE LET event == Loads(msg.data) IN
         IF "event" \notin DOMAIN event THEN RaiseIn("KeyError")
         ELSE IF event.event = "filters_changed" THEN Yield(event)
         ELSE IF target = Null \/ event.event = target
         THEN IF "payload" \notin DOMAIN event THEN RaiseIn("KeyError")
              ELSE IF ~IsJson(event.payload) THEN RaiseIn("JSONDecodeError")
              ELSE Yield(Loads(event.payload))
         ELSE Drop

\* what the generators around stream do with a value it yields:
\* stream_mentions tests notif['type'] == 'mention', the others pass it on
Through_All(via, notif) == Yield(notif)
Through(via, notif) ==
    IF via # "stream_mentions" THEN Yield(notif)
    ELSE IF "type" \notin DOMAIN notif THEN RaiseIn("KeyError")
    ELSE IF notif.type = "mention" THEN Yield(notif)
    ELSE Drop

\* __aexit__ of `async with self._session.ws_connect(...) as ws`: runs however
\* the block is left, by its end ("end"), an exception ("raise"), the
\* GeneratorExit of aclose ("aclose") or a cancellation ("cancel")
ExitWs_OnlyAtEnd(ws, how) ==
    SetAt(ws, Len(ws), [open |-> how # "end", exit |-> how])
ExitWs(ws, how) == SetAt(ws, Len(ws), [open |-> FALSE, exit |-> how])

StreamInit ==
    /\ st_pc = "call"
    /\ \E c \in StreamCalls : st_via = c.via /\ st_name = c.name /\ st_target = c.target
    /\ st_ws = <<>>
    /\ st_in = <<>>
    /\ st_out = <<>>
    /\ st_got = <<>>
    /\ st_err = "none"

\* the first step of the generator: ws_connect succeeds or fails
Stream ==
    /\ st_pc = "call"
    /\ \E connected \in BOOLEAN :
        IF connected
        THEN /\ st_ws' = Append(st_ws, [open |-> TRUE, exit |-> "none"])
             /\ st_pc' = "open"
             /\ UNCHANGED st_err
        ELSE /\ st_err' = "TransportError"
             /\ st_pc' = "done"
             /\ UNCHANGED st_ws
    /\ UNCHANGED <<st_via, st_name, st_target, st_in, st_out, st_got>>
    /\ UNCHANGED <<rq_vars, pt_vars, lg_vars, it_vars>>

\* a message arrives and the loop body handles it. An exception leaves the
\* `async with`, which closes the connection. A value yielded goes through
\* the generators around stream: it reaches the consumer, or stream_mentions
\* skips it and asks for the next, or stream_mentions raises, which ends the
\* iteration with stream left suspended at its yield.
Receive ==
    /\ st_pc = "open"
    /\ Len(st_in) < MaxFrames
    /\ \E msg \in Frames :
        LET d == Decode(msg, st_target) IN
        /\ st_in' = Append(st_in, msg)
        /\ IF d.kind = "raise"
           THEN /\ st_err' = d.val
                /\ st_pc' = "done"
                /\ st_ws' = ExitWs(st_ws, "raise")
                /\ UNCHANGED <<st_out, st_got>>
           ELSE IF d.kind = "drop"
           THEN UNCHANGED <<st_err, st_pc, st_ws, st_out, st_got>>
           ELSE LET t == Through(st_via, d.val) IN
                /\ st_out' = Append(st_out, d.val)
                /\ st_got' = IF t.kind = "yield" THEN Append(st_got, t.val) ELSE st_got
                /\ st_pc' = CASE t.kind = "yield" -> "yielded"
                               [] t.kind = "drop" -> "open"
                               [] t.kind = "raise" -> "abandoned"
                /\ st_err' = IF t.kind = "raise" THEN t.val ELSE st_err
                /\ UNCHANGED st_ws
    /\ UNCHANGED <<st_via, st_name, st_target>>
    /\ UNCHANGED <<rq_vars, pt_vars, lg_vars, it_vars>>

\* the consumer asks for the next value: the generators resume
Anext ==
    /\ st_pc = "yielded"
    /\ st_pc' = "open"
    /\ UNCHANGED <<st_via, st_name, st_target, st_ws, st_in, st_out, st_got, st_err>>
    /\ UNCHANGED <<rq_vars, pt_vars, lg_vars, it_vars>>

\* the consumer leaves its loop, by break, an exception or a cancellation in
\* its own code: nothing resumes the generators
ConsumerStops ==
    /\ st_pc = "yielded"
    /\ st_pc' = "abandoned"
    /\ UNCHANGED <<st_via, st_name, st_target, st_ws, st_in, st_out, st_got, st_err>>
    /\ UNCHANGED <<rq_vars, pt_vars, lg_vars, it_vars>>

\* aclose() of the generator the consumer holds: GeneratorExit is raised at
\* its yield. In stream itself this leaves the `async with`; a generator
\* around stream ends without closing stream (`async for` does not close
\* its iterator), which stays suspended.
Aclose ==
    /\ st_pc = "yielded"
    /\ IF st_via = "stream"
       THEN /\ st_pc' = "done"
            /\ st_ws' = ExitWs(st_ws, "aclose")
       ELSE /\ st_pc' = "abandoned"
            /\ UNCHANGED st_ws
    /\ UNCHANGED <<st_via, st_name, st_target, st_in, st_out, st_got, st_err>>
    /\ UNCHANGED <<rq_vars, pt_vars, lg_vars, it_vars>>

\* the event loop finalises the suspended generator stream (the asyncgen
\* finaliser hook, or shutdown_asyncgens): aclose() raises GeneratorExit at
\* its yield, which leaves the `async with`
Finalise ==
    /\ st_pc = "abandoned"
    /\ st_pc' = "done"
    /\ st_ws' = ExitWs(st_ws, "aclose")
    /\ UNCHANGED <<st_via, st_name, st_target, st_in, st_out, st_got, st_err>>
    /\ UNCHANGED <<rq_vars, pt_vars, lg_vars, it_vars>>

\* the consumer's task is cancelled while stream awaits a message:
\* CancelledError is raised in `async for msg in ws` and leaves the
\* `async with`
ConsumerCancelled ==
    /\ st_pc = "open"
    /\ st_pc' = "done"
    /\ st_err' = "Cancelled"
    /\ st_ws' = ExitWs(st_ws, "cancel")
    /\ UNCHANGED <<st_via, st_name, st_target, st_in, st_out, st_got>>
    /\ UNCHANGED <<rq_vars, pt_vars, lg_vars, it_vars>>

\* the server closes the connection: the loop ends, then the `async with`
ServerCloses ==
    /\ st_pc = "open"
    /\ st_pc' = "done"
    /\ st_ws' = ExitWs(st_ws, "end")
    /\ UNCHANGED <<st_via, st_name, st_target, st_in, st_out, st_got, st_err>>
    /\ UNCHANGED <<rq_vars, pt_vars, lg_vars, it_vars>>

(***************************************************************************)
(* Pleroma._get_logged_in_id, called by several tasks on one client.       *)
(***************************************************************************)
Calls == 1..MaxCalls
AccountIds == {"7", "8"}

\* what `await self.me()` may give or raise: the parsed body of
\* verify_credentials, or an exception of Pleroma.request
MeBodies == {[id |-> a] : a \in AccountIds \cup {Null}} \cup {[error |-> "Record not found"]}
MeResults == {Outcome("ok", b) : b \in MeBodies}
             \cup {Outcome(k, "verify_credentials") : k \in {"BadRequest", "BadResponse", "TransportError"}}

\* try: self._logged_in_id = me['id'] / except KeyError: raise LoginFailed(me)
\* / return self._logged_in_id: the new cache value and the outcome
LoginResult_StoresFailure(me, cache) ==
    IF "id" \notin DOMAIN me
    THEN [cache |-> "LoginFailed", stored |-> TRUE, out |-> Outcome("LoginFailed", me)]
    ELSE [cache |-> me.id, stored |-> TRUE, out |-> Outcome("ok", me.id)]
LoginResult(me, cache) ==
    IF "id" \notin DOMAIN me
    THEN [cache |-> cache, stored |-> FALSE, out |-> Outcome("LoginFailed", me)]
    ELSE [cache |-> me.id, stored |-> TRUE, out |-> Outcome("ok", me.id)]

LoginInit ==
    /\ logged_in_id = Null
    /\ lg_pc = [c \in Calls |-> "new"]
    /\ lg_seen = [c \in Calls |-> Null]
    /\ lg_reqs = [c \in Calls |-> 0]
    /\ lg_me = [c \in Calls |-> NoOutcome]
    /\ lg_hist = <<>>
    /\ lg_out = [c \in Calls |-> NoOutcome]

\* _get_logged_in_id up to its first await: the cached id is returned when
\* there is one, otherwise verify_credentials is requested
GetLoggedInId(c) ==
    /\ lg_pc[c] = "new"
    /\ lg_seen' = SetAt(lg_seen, c, logged_in_id)
    /\ IF logged_in_id # Null
       THEN /\ lg_pc' = SetAt(lg_pc, c, "done")
            /\ lg_out' = SetAt(lg_out, c, Outcome("ok", logged_in_id))
            /\ UNCHANGED lg_reqs
       ELSE /\ lg_pc' = SetAt(lg_pc, c, "await")
            /\ lg_reqs' = SetAt(lg_reqs, c, lg_reqs[c] + 1)
            /\ UNCHANGED lg_out
    /\ UNCHANGED <<logged_in_id, lg_me, lg_hist>>
    /\ UNCHANGED <<rq_vars, pt_vars, st_vars, it_vars>>

\* `await self.me()` ends for call c: an exception passes through; a body is
\* stored as the cached id and returned, or raises LoginFailed
MeReturns(c) ==
    /\ lg_pc[c] = "await"
    /\ \E me \in MeResults :
        /\ lg_me' = SetAt(lg_me, c, me)
        /\ IF me.kind # "ok"
           THEN /\ lg_out' = SetAt(lg_out, c, me)
                /\ UNCHANGED <<logged_in_id, lg_hist>>
           ELSE LET r == LoginResult(me.val, logged_in_id) IN
                /\ logged_in_id' = r.cache
                /\ lg_hist' = IF r.stored
                              THEN Append(lg_hist, [call |-> c, id |-> r.cache])
                              ELSE lg_hist
                /\ lg_out' = SetAt(lg_out, c, r.out)
    /\ lg_pc' = SetAt(lg_pc, c, "done")
    /\ UNCHANGED <<lg_seen, lg_reqs>>
    /\ UNCHANGED <<rq_vars, pt_vars, st_vars, it_vars>>

\* the task of call c is cancelled while it awaits self.me()
LoginCancelled(c) ==
    /\ lg_pc[c] = "await"
    /\ lg_pc' = SetAt(lg_pc, c, "done")
    /\ lg_out' = SetAt(lg_out, c, Outcome("Cancelled", "verify_credentials"))
    /\ UNCHANGED <<logged_in_id, lg_seen, lg_reqs, lg_me, lg_hist>>
    /\ UNCHANGED <<rq_vars, pt_vars, st_vars, it_vars>>

(***************************************************************************)
(* Pleroma.account_statuses_iter, one iteration.                           *)
(***************************************************************************)
\* Python objects: None, a str, a dict (a status with or without an id)
PyNone == [py |-> "None"]
Str(x) == [py |-> "str", v |-> x]
Status(x) == [py |-> "dict", id |-> x]
StatusIds == {"s1", "s2"}
StatusObjects == {Status(x) : x \in StatusIds} \cup {[py |-> "dict"]}

\* the lists the statuses endpoint may answer with
RECURSIVE ListsUpTo(_, _)
ListsUpTo(S, n) ==
    IF n = 0 THEN {<<>>}
    ELSE ListsUpTo(S, n - 1)
         \cup {Append(l, x) : l \in {m \in ListsUpTo(S, n - 1) : Len(m) = n - 1}, x \in S}
Pages == ListsUpTo(StatusObjects, MaxPageLen)

\* _unpack_id
UnpackId(obj) ==
    IF obj.py = "dict" /\ "id" \in DOMAIN obj THEN Str(obj.id) ELSE obj

\* account_statuses: the request it issues
AccountStatuses(id, exclude_repeats, max_id) ==
    [method |-> "GET",
     account |-> UnpackId(id),
     params |-> IF max_id # PyNone
                THEN [exclude_reblogs |-> IF exclude_repeats THEN "1" ELSE "0",
                      max_id |-> UnpackId(max_id)]
                ELSE [exclude_reblogs |-> IF exclude_repeats THEN "1" ELSE "0"]]

\* max_id = results[-1]
NextMaxId_First(results) == results[1]
NextMaxId(results) == results[Len(results)]

IterAccount == Status("a1")

IterInit ==
    /\ it_pc = "call"
    /\ it_repeats \in BOOLEAN
    /\ it_max_id \in {PyNone, Status("s9")}
    /\ it_reqs = <<>>
    /\ it_pages = <<>>
    /\ it_idx = 0
    /\ it_out = <<>>
    /\ it_err = "none"

\* the generator starts: the first account_statuses request is issued
AccountStatusesIter ==
    /\ it_pc = "call"
    /\ it_reqs' = Append(it_reqs, AccountStatuses(IterAccount, it_repeats, it_max_id))
    /\ it_pc' = "await"
    /\ UNCHANGED <<it_repeats, it_max_id, it_pages, it_idx, it_out, it_err>>
    /\ UNCHANGED <<rq_vars, pt_vars, st_vars, lg_vars>>

\* a page arrives: an empty one ends the loop and the generator, another
\* has its first status yielded
PageArrives ==
    /\ it_pc = "await"
    /\ \E results \in Pages :
        /\ results # <<>> => Len(it_pages) < MaxPages
        /\ it_pages' = Append(it_pages, results)
        /\ IF results = <<>>
           THEN /\ it_pc' = "done"
                /\ it_idx' = 0
                /\ UNCHANGED it_out
           ELSE /\ it_pc' = "yielded"
                /\ it_idx' = 1
                /\ it_out' = Append(it_out, results[1])
    /\ UNCHANGED <<it_repeats, it_max_id, it_reqs, it_err>>
    /\ UNCHANGED <<rq_vars, pt_vars, st_vars, lg_vars>>

\* the request raises: the exception ends the generator
PageFails ==
    /\ it_pc = "await"
    /\ \E kind \in {"BadRequest", "BadResponse", "TransportError"} : it_err' = kind
    /\ it_pc' = "done"
    /\ UNCHANGED <<it_repeats, it_max_id, it_reqs, it_pages, it_idx, it_out>>
    /\ UNCHANGED <<rq_vars, pt_vars, st_vars, lg_vars>>

\* the consumer asks for the next status: the next one of the page is
\* yielded; after the last, max_id becomes that status and the next page is
\* requested
IterAnext ==
    /\ it_pc = "yielded"
    /\ LET results == it_pages[Len(it_pages)] IN
       IF it_idx < Len(results)
       THEN /\ it_idx' = it_idx + 1
            /\ it_out' = Append(it_out, results[it_idx + 1])
            /\ UNCHANGED <<it_pc, it_max_id, it_reqs>>
       ELSE /\ it_max_id' = NextMaxId(results)
            /\ it_reqs' = Append(it_reqs,
                                 AccountStatuses(IterAccount, it_repeats, NextMaxId(results)))
            /\ it_pc' = "await"
            /\ UNCHANGED <<it_idx, it_out>>
    /\ UNCHANGED <<it_repeats, it_pages, it_err>>
    /\ UNCHANGED <<rq_vars, pt_vars, st_vars, lg_vars>>

\* the consumer stops iterating and the generator is closed at its yield
IterAclose ==
    /\ it_pc = "yielded"
    /\ it_pc' = "done"
    /\ it_err' = "GeneratorExit"
    /\ UNCHANGED <<it_repeats, it_max_id, it_reqs, it_pages, it_idx, it_out>>
    /\ UNCHANGED <<rq_vars, pt_vars, st_vars, lg_vars>>

IterIdle ==
    /\ it_pc = "idle"
    /\ it_repeats = FALSE
    /\ it_max_id = PyNone
    /\ it_reqs = <<>>
    /\ it_pages = <<>>
    /\ it_idx = 0
    /\ it_out = <<>>
    /\ it_err = "none"

LoginIdle ==
    /\ logged_in_id = Null
    /\ lg_pc = <<>>
    /\ lg_seen = <<>>
    /\ lg_reqs = <<>>
    /\ lg_me = <<>>
    /\ lg_hist = <<>>
    /\ lg_out = <<>>

InitRequest == RequestInit /\ PostIdle /\ StreamIdle /\ LoginIdle /\ IterIdle

NextRequest ==
    \/ Request
    \/ DoEnter
    \/ TransportFails
    \/ Retry
    \/ RequestBody
    \/ RequestCancelled
    \/ Tick

SpecRequest == InitRequest /\ [][NextRequest]_vars

\* The event loop runs a task that can run, the transport answers a request
\* it was given and time passes: some step other than a transport failure
\* or a cancellation is taken whenever one stays possible.
Progress == Request \/ DoEnterPlain \/ Retry \/ RequestBody \/ Tick
FairRequest == WF_vars(Progress)

NextRequestFair ==
    \/ Request
    \/ DoEnterPlain
    \/ TransportFails
    \/ Retry
    \/ RequestBody
    \/ RequestCancelled
    \/ Tick

SpecRequestFair == InitRequest /\ [][NextRequestFair]_vars /\ FairRequest

InitPost == RequestIdle /\ PostInit /\ StreamIdle /\ LoginIdle /\ IterIdle

NextPost ==
    \/ Post
    \/ \E i \in Tasks : UploadStart(i)
    \/ \E i \in Tasks : UploadDoEnter(i)
    \/ \E i \in Tasks : UploadTransportFails(i)
    \/ \E i \in Tasks : UploadRetry(i)
    \/ \E i \in Tasks : UploadCancelled(i)
    \/ TaskGroupExit
    \/ PostResult

SpecPost == InitPost /\ [][NextPost]_vars

InitStream == RequestIdle /\ PostIdle /\ StreamInit /\ LoginIdle /\ IterIdle

NextStream ==
    \/ Stream
    \/ Receive
    \/ Anext
    \/ ConsumerStops
    \/ Aclose
    \/ Finalise
    \/ ConsumerCancelled
    \/ ServerCloses

SpecStream == InitStream /\ [][NextStream]_vars

InitLogin == RequestIdle /\ PostIdle /\ StreamIdle /\ LoginInit /\ IterIdle

NextLogin ==
    \/ \E c \in Calls : GetLoggedInId(c)
    \/ \E c \in Calls : MeReturns(c)
    \/ \E c \in Calls : LoginCancelled(c)

SpecLogin == InitLogin /\ [][NextLogin]_vars

InitIter == RequestIdle /\ PostIdle /\ StreamIdle /\ LoginIdle /\ IterInit

NextIter ==
    \/ AccountStatusesIter
    \/ PageArrives
    \/ PageFails
    \/ IterAnext
    \/ IterAclose

SpecIter == InitIter /\ [][NextIter]_vars

(***************************************************************************)
(* Properties of the request pipeline, in SpecRequest.                     *)
(***************************************************************************)
\* the last response acquired, as its headers
LastHeaders == rq_hist[Len(rq_hist)]
\* the call went through the body of `async with` and ended there
EndedInBody ==
    /\ rq_pc = "done"
    /\ Len(rq_hist) > 0
    /\ LastHeaders.remaining \notin {"0", "1"}
    /\ rq_out.kind # "Cancelled"

\* C1: a response whose X-RateLimit-Remaining is "0" or "1" is never the one
\* handed to the caller; every transport request after the first follows a
\* limited response, is issued no earlier than the instant that response's
\* X-RateLimit-Reset names, and has the method, URL and options of the
\* original call; the response handed to the caller is not limited.
C1_LimitedIsWaitedOutAndReissued ==
    /\ rq_pc = "body" => LastHeaders.remaining \notin {"0", "1"}
    /\ (rq_pc = "done" /\ rq_out.kind \in {"ok", "BadRequest", "BadResponse"})
          => LastHeaders.remaining \notin {"0", "1"}
    /\ \A i \in 1..Len(rq_sent) :
          /\ rq_sent[i].req.method = rq_args.method
          /\ rq_sent[i].req.url = <<api_base_url, rq_args.path>>
          /\ rq_sent[i].req.kwargs = rq_args.kwargs
    /\ \A i \in 2..Len(rq_sent) :
          /\ rq_hist[i-1].remaining \in {"0", "1"}
          /\ rq_hist[i-1].reset[1] = "date"
          /\ rq_sent[i].at >= rq_hist[i-1].reset[2]
    /\ \A i \in 1..Len(rq_hist) :
          (rq_hist[i].remaining \in {"0", "1"} /\ rq_hist[i].reset[1] = "date")
             => \/ Len(rq_sent) > i
                \/ rq_pc = "sleeping"
                \/ rq_pc = "done" /\ rq_out.kind = "Cancelled"

\* two limited responses in a row were waited out and a third response returned
C1_Witness ==
    /\ rq_pc = "done"
    /\ rq_out.kind = "ok"
    /\ Len(rq_sent) = 3
    /\ rq_hist[1].remaining = "0"
    /\ rq_hist[2].remaining = "1"
    /\ rq_hist[2].reset = <<"date", 1>>
    /\ rq_args.method = "POST"

\* C2: when the first response has no X-RateLimit-Remaining, or a value
\* other than "0" and "1", the call hands that response to the caller:
\* one transport request was issued and the call never slept.
C2_UnlimitedReturnsAtOnce ==
    (Len(rq_hist) > 0 /\ rq_hist[1].remaining \notin {"0", "1"})
       => /\ Len(rq_sent) = 1
          /\ Len(rq_hist) = 1
          /\ rq_sleeps = 0
          /\ rq_pc \in {"body", "done"}
          /\ rq_pc = "done" =>
                rq_out.kind \in {"ok", "BadRequest", "BadResponse", "KeyError", "Cancelled"}

C2_Witness ==
    /\ rq_pc = "done"
    /\ rq_out.kind = "ok"
    /\ rq_hist[1].remaining = "00"
    /\ rq_clock = 1

\* C3: during the rate-limit wait no response is held: the limited response
\* has been released before the sleep begins.
C3_ReleasedBeforeSuspend ==
    rq_pc = "sleeping" => ~Held(Len(rq_rel))

\* C4: a limited response whose X-RateLimit-Reset is missing or is no
\* HTTP-date ends the call with BadResponse, and no retry is issued.
C4_BadResetIsBadResponse ==
    (/\ rq_pc = "done"
     /\ Len(rq_hist) > 0
     /\ LastHeaders.remaining \in {"0", "1"}
     /\ LastHeaders.reset[1] # "date"
     /\ rq_out.kind # "Cancelled")
       => /\ rq_out.kind = "BadResponse"
          /\ Len(rq_sent) = Len(rq_hist)

C12_EventuallyReturns == <>(rq_pc = "done")

\* a response that is not limited, returned after a wait that the clock
\* had to reach
C12_Witness ==
    /\ rq_pc = "done"
    /\ rq_out.kind = "ok"
    /\ rq_sleeps = 1
    /\ rq_hist[1].reset = <<"date", 1>>
    /\ rq_sent[2].at = 1
    /\ rq_hist[2].remaining = NoHeader

\* C13: for a host on the deny-list no transport request is ever issued
\* and the call ends with RuntimeError; for any other host the call issues
\* its transport request and never ends with that error.
C13_DeniedHostNeverDispatched ==
    /\ rq_host = "blocked.test" =>
          /\ rq_sent = <<>>
          /\ rq_hist = <<>>
          /\ rq_pc \in {"call", "done"}
          /\ rq_pc = "done" => rq_out.kind = "RuntimeError"
    /\ (rq_host # "blocked.test" /\ rq_pc # "call") =>
          /\ Len(rq_sent) >= 1
          /\ rq_out.kind # "RuntimeError"

C13_Witness ==
    /\ rq_host = "blocked.test"
    /\ rq_pc = "done"
    /\ rq_out.kind = "RuntimeError"
    /\ rq_args.method = "POST"

\* C16: a transport request that got no response is the last one the call
\* issues; a failed transport call ends the call with TransportError, on the
\* first attempt as on a reissue.
C16_TransportFailureNotRetried ==
    /\ Len(rq_sent) <= Len(rq_hist) + 1
    /\ rq_out.kind = "TransportError" =>
          /\ rq_pc = "done"
          /\ Len(rq_sent) = Len(rq_hist) + 1
    /\ (rq_pc = "done" /\ Len(rq_sent) = Len(rq_hist) + 1) =>
          rq_out.kind \in {"TransportError", "Cancelled"}

\* the transport failed on the reissue that followed a rate-limit wait
C16_Witness ==
    /\ rq_pc = "done"
    /\ rq_out.kind = "TransportError"
    /\ Len(rq_sent) = 2
    /\ rq_sleeps = 1

\* C18: when the call has ended, every response it acquired has been
\* released exactly once.
C18_EveryResponseReleasedOnce ==
    rq_pc = "done" => \A i \in 1..Len(rq_rel) : rq_rel[i] = 1

(***************************************************************************)
(* Properties of Pleroma.post, in SpecPost.                                *)
(***************************************************************************)
\* C6: a status request of a post with N > 0 files is issued only when all
\* N uploads have ended successfully, and it carries N media ids, one real
\* id per file; no status request carries fewer.
C6_StatusAfterAllUploads ==
    /\ Len(pt_posted) <= 1
    /\ \A k \in 1..Len(pt_posted) :
          pt_files > 0 =>
             /\ \A i \in Tasks : up_pc[i] = "ok"
             /\ "media_ids" \in DOMAIN pt_posted[k]
             /\ Len(pt_posted[k].media_ids) = pt_files
             /\ \A i \in Tasks : pt_posted[k].media_ids[i] \in MediaIds
    /\ (pt_pc \in {"call", "uploading"}) => pt_posted = <<>>

\* two uploads, one of them after a rate-limit wait, then the status request
C6_Witness ==
    /\ pt_files = 2
    /\ Len(pt_posted) = 1
    /\ pt_posted[1].media_ids = <<"m2", "m1">>
    /\ up_tries[1] = 2
    /\ pt_pc = "done"
    /\ pt_out.kind = "ok"

\* C7: when an upload of a post fails, every other upload is cancelled and
\* holds no response afterwards, post fails with the first error raised,
\* and no status request is issued.
C7_FailedUploadReleasesTheOthers ==
    (pt_pc = "done" /\ tg_errors # <<>>)
       => /\ \A i \in Tasks : Finished(i)
          /\ \A i \in Tasks : (up_pc[i] # "failed") => ~up_held[i]
          /\ pt_out.kind = tg_errors[1].kind
          /\ pt_posted = <<>>

\* C19: the media id list sent with the status has at position i the id
\* the upload of file i returned, in whatever order the uploads completed:
\* every upload returned exactly once, and its id sits at its own index.
C19_MediaIdsFollowFileOrder ==
    \A k \in 1..Len(pt_posted) :
        "media_ids" \in DOMAIN pt_posted[k] =>
            /\ Len(pt_posted[k].media_ids) = pt_files
            /\ Len(up_done) = pt_files
            /\ \A i \in Tasks : \E n \in 1..Len(up_done) : up_done[n].task = i
            /\ \A n \in 1..Len(up_done) :
                  pt_posted[k].media_ids[up_done[n].task] = up_done[n].id

\* two uploads with different ids, the second file's upload returning first
C19_Witness ==
    /\ pt_pc = "done"
    /\ pt_out.kind = "ok"
    /\ pt_files = 2
    /\ Len(pt_posted) = 1
    /\ Len(up_done) = 2
    /\ up_done[1] = [task |-> 2, id |-> "m2"]
    /\ up_done[2] = [task |-> 1, id |-> "m1"]
    /\ pt_posted[1].media_ids = <<"m1", "m2">>

(***************************************************************************)
(* Properties of Pleroma.stream, in SpecStream.                            *)
(***************************************************************************)
\* a text frame whose outer JSON parses to an object with this event
HasEvent(msg, ev) ==
    /\ msg.type = "TEXT"
    /\ msg.data[1] = "json"
    /\ "event" \in DOMAIN msg.data[2]
    /\ msg.data[2].event = ev
\* ... and whose payload is a JSON document
HasPayload(msg) ==
    /\ "payload" \in DOMAIN msg.data[2]
    /\ msg.data[2].payload[1] = "json"

\* the inner payloads of the notification frames of a frame sequence
RECURSIVE NotificationPayloads(_)
NotificationPayloads(frames) ==
    IF frames = <<>> THEN <<>>
    ELSE LET f == Head(frames) IN
         (IF HasEvent(f, "notification") /\ HasPayload(f)
          THEN <<f.data[2].payload[2]>> ELSE <<>>)
         \o NotificationPayloads(Tail(frames))

\* the same, with every filters_changed frame kept as its outer object
RECURSIVE NotificationsAndFilters(_)
NotificationsAndFilters(frames) ==
    IF frames = <<>> THEN <<>>
    ELSE LET f == Head(frames) IN
         (IF HasEvent(f, "notification") /\ HasPayload(f)
          THEN <<f.data[2].payload[2]>>
          ELSE IF HasEvent(f, "filters_changed") THEN <<f.data[2]>> ELSE <<>>)
         \o NotificationsAndFilters(Tail(frames))

\* the outer objects of the filters_changed frames of a frame sequence
RECURSIVE FiltersChanged(_)
FiltersChanged(frames) ==
    IF frames = <<>> THEN <<>>
    ELSE LET f == Head(frames) IN
         (IF HasEvent(f, "filters_changed") THEN <<f.data[2]>> ELSE <<>>)
         \o FiltersChanged(Tail(frames))

IsFiltersChanged(v) == "event" \in DOMAIN v /\ v.event = "filters_changed"

\* C8 as stated: with target "notification" the yielded sequence is the
\* inner payloads of the notification frames, in arrival order, and nothing
\* else is yielded.
C8_OnlyNotificationPayloads ==
    st_target = "notification" => st_out = NotificationPayloads(st_in)

\* C8 as amended: with target "notification" the yielded sequence is, in
\* arrival order, the inner payload of every notification frame and the
\* whole outer object of every filters_changed frame; frames with any other
\* event yield nothing.
C8_NotificationsInArrivalOrder ==
    st_target = "notification" => st_out = NotificationsAndFilters(st_in)

\* a notification, a dropped update and another notification
C8_Witness ==
    /\ st_target = "notification"
    /\ st_name = "user:notification"
    /\ Len(st_in) = 3
    /\ st_in[2] = [type |-> "TEXT", data |-> Enc([event |-> "update", payload |-> Enc(Favourite)])]
    /\ st_out = <<Favourite, Mention>>

\* C9: whatever the target event type, every filters_changed frame is
\* yielded as its whole outer object, in arrival order, its payload unread.
C9_FiltersChangedYieldedWhole ==
    SelectSeq(st_out, IsFiltersChanged) = FiltersChanged(st_in)

\* a filters_changed frame with an unreadable payload, yielded under a
\* target that is not its event
C9_Witness ==
    /\ st_target = "notification"
    /\ Len(st_out) = 2
    /\ st_out[1] = [event |-> "filters_changed"]
    /\ st_out[2] = [event |-> "filters_changed", payload |-> Garbage]

\* the frame must fail the stream: its outer JSON is malformed, or its
\* payload has to be decoded and is no JSON
MustFail(msg, target) ==
    /\ msg.type = "TEXT"
    /\ \/ msg.data[1] # "json"
       \/ /\ "event" \in DOMAIN msg.data[2]
          /\ msg.data[2].event # "filters_changed"
          /\ target = Null \/ msg.data[2].event = target
          /\ "payload" \in DOMAIN msg.data[2]
          /\ msg.data[2].payload[1] # "json"

\* C10: a frame with malformed outer JSON, or with a payload that has to be
\* decoded and is no JSON, ends the stream with BadResponse; the frame
\* yields nothing and no later frame is handled.
C10_DecodeFailureIsBadResponse ==
    (Len(st_in) > 0 /\ MustFail(st_in[Len(st_in)], st_target))
       => /\ st_err = "BadResponse"
          /\ st_pc = "done"

IsMention(v) == "type" \in DOMAIN v /\ v.type = "mention"

\* C17: stream_mentions gives its consumer exactly the values of the
\* notification stream whose type is "mention", in the order that stream
\* yields them, over the one connection stream opened.
C17_MentionsArePureFilter ==
    st_via = "stream_mentions" =>
        /\ st_got = SelectSeq(st_out, IsMention)
        /\ Len(st_ws) <= 1
        /\ st_ws = <<>> => st_out = <<>>

\* a mention, a favourite that is skipped, and another mention
C17_Witness ==
    /\ st_via = "stream_mentions"
    /\ st_out = <<Mention, Favourite, Mention>>
    /\ st_got = <<Mention, Mention>>
    /\ Len(st_ws) = 1

(***************************************************************************)
(* Properties of Pleroma._get_logged_in_id, in SpecLogin.                  *)
(***************************************************************************)
StoredAnId(h) == h.id # Null
\* the assignments that stored an id
IdsStored == SelectSeq(lg_hist, StoredAnId)

\* C14: the cached id is computed at most once and never changes: one
\* assignment of an id at most, every call that returns gives that id, and
\* a call that found the cache set issued no request.
C14_CachedIdComputedOnce ==
    /\ Len(IdsStored) <= 1
    /\ \A c \in Calls :
          (lg_pc[c] = "done" /\ lg_out[c].kind = "ok" /\ IdsStored # <<>>)
             => lg_out[c].val = IdsStored[1].id
    /\ \A c \in Calls : lg_seen[c] # Null => lg_reqs[c] = 0

\* C15: a call whose verify_credentials body has no id ends with LoginFailed
\* after its one request and stores nothing: the cache holds an account id
\* or is unset, and is unset while no call has stored one.
C15_LoginFailedStoresNothing ==
    /\ logged_in_id \in AccountIds \cup {Null}
    /\ lg_hist = <<>> => logged_in_id = Null
    /\ \A c \in Calls :
          (lg_pc[c] = "done" /\ lg_me[c].kind = "ok" /\ "id" \notin DOMAIN lg_me[c].val)
             => /\ lg_out[c].kind = "LoginFailed"
                /\ lg_reqs[c] = 1
                /\ \A n \in 1..Len(lg_hist) : lg_hist[n].call # c
    /\ \A c \in Calls :
          lg_out[c].kind = "LoginFailed"
             => lg_me[c].kind = "ok" /\ "id" \notin DOMAIN lg_me[c].val

\* both calls got a body without id: both failed, the cache is unset
C15_Witness ==
    /\ \A c \in Calls : lg_pc[c] = "done" /\ lg_out[c].kind = "LoginFailed" /\ lg_reqs[c] = 1
    /\ logged_in_id = Null
    /\ lg_hist = <<>>

(***************************************************************************)
(* Properties of Pleroma.account_statuses_iter, in SpecIter.               *)
(***************************************************************************)
RECURSIVE Flatten(_)
Flatten(pages) == IF pages = <<>> THEN <<>> ELSE Head(pages) \o Flatten(Tail(pages))

HasId(status) == "id" \in DOMAIN status
LastOf(page) == page[Len(page)]

\* C20: the statuses yielded are those of the pages received, in page order
\* and in-page order (all of them whenever a page is awaited or the loop has
\* ended); each request after the first carries as max_id the id of the last
\* status of the page before it; no request follows an empty page; and the
\* generator ends without an exception exactly when the last page received
\* is empty.
C20_PagesInOrderUntilEmpty ==
    /\ Len(it_out) <= Len(Flatten(it_pages))
    /\ it_out = SubSeq(Flatten(it_pages), 1, Len(it_out))
    /\ (it_pc = "await" \/ (it_pc = "done" /\ it_err = "none")) => it_out = Flatten(it_pages)
    /\ it_pc = "yielded" =>
          Len(it_out) = Len(Flatten(it_pages)) - Len(it_pages[Len(it_pages)]) + it_idx
    /\ Len(it_reqs) = Len(it_pages) + (IF it_pc = "await" \/ it_err \in {"BadRequest", "BadResponse", "TransportError"} THEN 1 ELSE 0)
    /\ \A k \in 2..Len(it_reqs) :
          /\ it_pages[k - 1] # <<>>
          /\ "max_id" \in DOMAIN it_reqs[k].params
          /\ HasId(LastOf(it_pages[k - 1]))
                => it_reqs[k].params.max_id = Str(LastOf(it_pages[k - 1]).id)
    /\ (it_pc = "done" /\ it_err = "none")
          <=> (it_pages # <<>> /\ it_pages[Len(it_pages)] = <<>>)

\* two pages of two statuses and an empty third
C20_Witness ==
    /\ it_pc = "done"
    /\ it_err = "none"
    /\ it_pages = <<(<<Status("s1"), Status("s2")>>), (<<Status("s2"), Status("s1")>>), (<<>>)>>
    /\ it_out = <<Status("s1"), Status("s2"), Status("s2"), Status("s1")>>
    /\ Len(it_reqs) = 3
    /\ it_reqs[2].params.max_id = Str("s2")
    /\ it_reqs[3].params.max_id = Str("s1")

====
